---------------------------- MODULE Spec2Model ----------------------------
(***************************************************************************)
(* ShopQ business logic (test/logic.test.js): the category catalog, the   *)
(* common-item table, the list/item factory, the query functions over a   *)
(* caller-owned item array, the share codec and the HTML escaper.         *)
(*                                                                         *)
(* A JavaScript string is a sequence of UTF-16 code units (naturals).     *)
(* A JavaScript value of unknown shape (an argument that may be absent,   *)
(* what JSON.parse returns) is a tagged record [t |-> ..., v |-> ...].    *)
(***************************************************************************)
EXTENDS Integers, Sequences, FiniteSets, TLC

(***************************************************************************)
(* Bounds of the model.                                                    *)
(***************************************************************************)
MaxTextLen == 3
MaxItems == 3

(***************************************************************************)
(* Characters.  AsciiChars[i] is the character with code 31 + i (the      *)
(* grave accent, code 96, is spelled out).                                 *)
(***************************************************************************)
AsciiChars ==
  <<
    " ", "!", "\"", "#", "$", "%", "&", "'", "(", ")", "*", "+", ",", "-", ".", "/",
    "0", "1", "2", "3", "4", "5", "6", "7", "8", "9", ":", ";", "<", "=", ">", "?",
    "@", "A", "B", "C", "D", "E", "F", "G", "H", "I", "J", "K", "L", "M", "N", "O",
    "P", "Q", "R", "S", "T", "U", "V", "W", "X", "Y", "Z", "[", "\\", "]", "^", "_",
    "grave", "a", "b", "c", "d", "e", "f", "g", "h", "i", "j", "k", "l", "m", "n", "o",
    "p", "q", "r", "s", "t", "u", "v", "w", "x", "y", "z", "{", "|", "}", "~"
  >>

\* The code unit of a printable ASCII character.
Ord(c) == 31 + (CHOOSE i \in DOMAIN AsciiChars : AsciiChars[i] = c)

\* A string literal: the code units of the characters given.
Str(chars) == [i \in DOMAIN chars |-> Ord(chars[i])]

\* The element of a set of one element.
The(S) == CHOOSE x \in S : TRUE

\* Op of the value of v.  TLC evaluates the argument of an operator anew at
\* every use of its parameter; the element of a set is evaluated once.
With(v, Op(_)) == The({ Op(x) : x \in { v } })

\* The least of a set of numbers.
Min(S) == CHOOSE x \in S : \A y \in S : x <= y

\* Concatenation of the strings parts[lo], ..., parts[hi], by halves.
RECURSIVE ConcatRange(_, _, _)
ConcatRange(parts, lo, hi) ==
  IF lo > hi
    THEN <<>>
    ELSE IF lo = hi
      THEN parts[lo]
      ELSE ConcatRange(parts, lo, (lo + hi) \div 2)
             \o ConcatRange(parts, ((lo + hi) \div 2) + 1, hi)

\* Concatenation of a sequence of strings.
Concat(parts) == With(parts, LAMBDA texts : ConcatRange(texts, 1, Len(texts)))

(***************************************************************************)
(* String.prototype.toLowerCase / toUpperCase on the Basic Latin and      *)
(* Latin-1 code units: A-Z and the accented capitals map 32 up.           *)
(***************************************************************************)
UpperUnits == (Ord("A") .. Ord("Z")) \cup ((192 .. 222) \ {215})

ToLowerUnit(c) == IF c \in UpperUnits THEN c + 32 ELSE c

toLowerCase(s) == [i \in DOMAIN s |-> ToLowerUnit(s[i])]

ToUpperUnit(c) == IF (c - 32) \in UpperUnits THEN c - 32 ELSE c

\* String.prototype.includes: needle occurs in hay at some offset.
includes(hay, needle) ==
  \E k \in 0 .. (Len(hay) - Len(needle)) :
     \A i \in 1 .. Len(needle) : hay[k + i] = needle[i]

(***************************************************************************)
(* JavaScript values of unknown shape.                                     *)
(***************************************************************************)
Undefined == [t |-> "undefined"]
Null == [t |-> "null"]
JStr(s) == [t |-> "string", v |-> s]

\* ToBoolean on the values an optional string argument takes.
Truthy(x) == x.t = "string" /\ x.v # <<>>

(***************************************************************************)
(* The fixed tables.                                                       *)
(***************************************************************************)
produce == Str(<<"p", "r", "o", "d", "u", "c", "e">>)
dairy == Str(<<"d", "a", "i", "r", "y">>)
meat == Str(<<"m", "e", "a", "t">>)
bakery == Str(<<"b", "a", "k", "e", "r", "y">>)
frozen == Str(<<"f", "r", "o", "z", "e", "n">>)
pantry == Str(<<"p", "a", "n", "t", "r", "y">>)
beverages == Str(<<"b", "e", "v", "e", "r", "a", "g", "e", "s">>)
other == Str(<<"o", "t", "h", "e", "r">>)
all == Str(<<"a", "l", "l">>)

\* The ids of CATEGORIES, in order (the display names are not modelled).
CATEGORIES ==
  << produce, dairy, meat, bakery, frozen, pantry, beverages, other >>

CategoryIds == { CATEGORIES[i] : i \in DOMAIN CATEGORIES }

Milk == Str(<<"M", "i", "l", "k">>)
Eggs == Str(<<"E", "g", "g", "s">>)
Bread == Str(<<"B", "r", "e", "a", "d">>)
Butter == Str(<<"B", "u", "t", "t", "e", "r">>)
Cheese == Str(<<"C", "h", "e", "e", "s", "e">>)
Chicken == Str(<<"C", "h", "i", "c", "k", "e", "n">>)
Apples == Str(<<"A", "p", "p", "l", "e", "s">>)
Bananas == Str(<<"B", "a", "n", "a", "n", "a", "s">>)

COMMON_ITEMS ==
  << [name |-> Milk, category |-> dairy],
     [name |-> Eggs, category |-> dairy],
     [name |-> Bread, category |-> bakery],
     [name |-> Butter, category |-> dairy],
     [name |-> Cheese, category |-> dairy],
     [name |-> Chicken, category |-> meat],
     [name |-> Apples, category |-> produce],
     [name |-> Bananas, category |-> produce] >>

(***************************************************************************)
(* generateId, createList, createItem.                                     *)
(***************************************************************************)
Digits36 ==
  Str(<<"0", "1", "2", "3", "4", "5", "6", "7", "8", "9", "a", "b", "c",
        "d", "e", "f", "g", "h", "i", "j", "k", "l", "m", "n", "o", "p",
        "q", "r", "s", "t", "u", "v", "w", "x", "y", "z">>)

\* Number.prototype.toString(36) of a natural number.
RECURSIVE ToString36(_)
ToString36(n) ==
  IF n < Len(Digits36)
    THEN << Digits36[n + 1] >>
    ELSE ToString36(n \div Len(Digits36)) \o << Digits36[(n % Len(Digits36)) + 1] >>

\* Math.random().toString(36) for the random number whose base-36 fraction
\* digits are frac: "0" when there are none, else "0." and the digits.
RandomToString36(frac) ==
  IF frac = <<>> THEN Str(<<"0">>) ELSE Str(<<"0", ".">>) \o frac

\* String.prototype.substr(2): what follows the first two code units.
Substr2(s) == SubSeq(s, 3, Len(s))

generateId(now, frac) == ToString36(now) \o Substr2(RandomToString36(frac))

createList(name, now, frac) ==
  [id |-> generateId(now, frac), name |-> name, items |-> <<>>]

\* now1 is the clock that generateId reads, now2 the one createdAt reads.
createItem(name, category, now1, frac, now2) ==
  [id |-> generateId(now1, frac),
   name |-> name,
   category |-> IF Truthy(category) THEN category.v ELSE other,
   done |-> FALSE,
   createdAt |-> now2]

(***************************************************************************)
(* findCategory.                                                           *)
(***************************************************************************)
\* Array.prototype.find over COMMON_ITEMS: the first entry whose lower-cased
\* name is the lower-cased itemName, from index i on; Undefined when none.
RECURSIVE FindCommon(_, _)
FindCommon(itemName, i) ==
  IF i > Len(COMMON_ITEMS)
    THEN Undefined
    ELSE IF toLowerCase(COMMON_ITEMS[i].name) = toLowerCase(itemName)
           THEN [t |-> "object", v |-> COMMON_ITEMS[i]]
           ELSE FindCommon(itemName, i + 1)

\* The lookup comparing the names as written.
RECURSIVE FindCommonCaseSensitive(_, _)
FindCommonCaseSensitive(itemName, i) ==
  IF i > Len(COMMON_ITEMS)
    THEN Undefined
    ELSE IF COMMON_ITEMS[i].name = itemName
           THEN [t |-> "object", v |-> COMMON_ITEMS[i]]
           ELSE FindCommonCaseSensitive(itemName, i + 1)

findCategoryCaseSensitive(itemName) ==
  LET common == FindCommonCaseSensitive(itemName, 1)
  IN  IF common.t = "object" THEN common.v.category ELSE other

findCategory(itemName) ==
  LET common == FindCommon(itemName, 1)
  IN  IF common.t = "object" THEN common.v.category ELSE other

(***************************************************************************)
(* escapeHtml.                                                             *)
(***************************************************************************)
\* String.prototype.replace(/ch/g, rep): every occurrence of the code unit
\* ch replaced by rep, left to right; rep itself is not scanned again.
RECURSIVE ReplaceAll(_, _, _)
ReplaceAll(text, ch, rep) ==
  IF text = <<>>
    THEN <<>>
    ELSE (IF Head(text) = ch THEN rep ELSE << Head(text) >>)
           \o ReplaceAll(Tail(text), ch, rep)

AmpEntity == Str(<<"&", "a", "m", "p", ";">>)
LtEntity == Str(<<"&", "l", "t", ";">>)
GtEntity == Str(<<"&", "g", "t", ";">>)
QuotEntity == Str(<<"&", "q", "u", "o", "t", ";">>)
AposEntity == Str(<<"&", "#", "0", "3", "9", ";">>)

escapeHtmlAmpLast(text) ==
  ReplaceAll(
    ReplaceAll(
      ReplaceAll(
        ReplaceAll(
          ReplaceAll(text, Ord("<"), LtEntity),
          Ord(">"), GtEntity),
        Ord("\""), QuotEntity),
      Ord("'"), AposEntity),
    Ord("&"), AmpEntity)

escapeHtml(text) ==
  ReplaceAll(
    ReplaceAll(
      ReplaceAll(
        ReplaceAll(
          ReplaceAll(text, Ord("&"), AmpEntity),
          Ord("<"), LtEntity),
        Ord(">"), GtEntity),
      Ord("\""), QuotEntity),
    Ord("'"), AposEntity)

(***************************************************************************)
(* Array.prototype.filter with the callbacks of the query functions: a    *)
(* new array of the elements, from index i on, that the callback keeps.   *)
(***************************************************************************)
RECURSIVE FilterCategory(_, _, _)
FilterCategory(items, i, category) ==
  IF i > Len(items)
    THEN <<>>
    ELSE (IF items[i].category = category THEN << items[i] >> ELSE <<>>)
           \o FilterCategory(items, i + 1, category)

RECURSIVE FilterDone(_, _, _)
FilterDone(items, i, done) ==
  IF i > Len(items)
    THEN <<>>
    ELSE (IF items[i].done = done THEN << items[i] >> ELSE <<>>)
           \o FilterDone(items, i + 1, done)

filterItemsByCategoryNoSentinel(items, category) ==
  FilterCategory(items, 1, category)

filterItemsByCategory(items, category) ==
  IF category = all THEN items ELSE FilterCategory(items, 1, category)

countCompletedAll(items) == Len(items)

countCompleted(items) == Len(FilterDone(items, 1, TRUE))

clearCompleted(items) == FilterDone(items, 1, FALSE)

(***************************************************************************)
(* groupItemsByCategory.  grouped is a plain object: a finite map of own  *)
(* properties, whose lookups fall back on Object.prototype.               *)
(***************************************************************************)
constructor == Str(<<"c", "o", "n", "s", "t", "r", "u", "c", "t", "o", "r">>)

ObjectPrototypeKeys ==
  { constructor,
    Str(<<"t", "o", "S", "t", "r", "i", "n", "g">>),
    Str(<<"v", "a", "l", "u", "e", "O", "f">>),
    Str(<<"h", "a", "s", "O", "w", "n", "P", "r", "o", "p", "e", "r", "t", "y">>),
    Str(<<"_", "_", "p", "r", "o", "t", "o", "_", "_">>) }

\* grouped[key]: the own array, an inherited member (truthy, no array), or
\* undefined.
GetProperty(grouped, key) ==
  IF key \in DOMAIN grouped
    THEN [t |-> "array", v |-> grouped[key]]
    ELSE IF key \in ObjectPrototypeKeys
           THEN [t |-> "inherited"]
           ELSE Undefined

\* The forEach of groupItemsByCategory from index i on: the object built,
\* or the TypeError of calling push on an inherited member.
RECURSIVE GroupFrom(_, _, _)
GroupFrom(items, i, grouped) ==
  IF i > Len(items)
    THEN [outcome |-> "return", value |-> grouped]
    ELSE LET own == items[i].category
             made == IF GetProperty(grouped, own).t = "undefined"
                       THEN (own :> <<>>) @@ grouped
                       ELSE grouped
             target == GetProperty(made, own)
         IN  IF target.t = "array"
               THEN GroupFrom(items, i + 1,
                              [made EXCEPT ![own] = Append(target.v, items[i])])
               ELSE [outcome |-> "throw", value |-> "TypeError"]

EmptyObject == << >>

groupItemsByCategory(items) == GroupFrom(items, 1, EmptyObject)

(***************************************************************************)
(* matchAutocomplete: the filter callback with its seen set, from index i *)
(* on; out is what the filter has kept so far.                            *)
(***************************************************************************)
RECURSIVE MatchFrom(_, _, _, _, _)
MatchFrom(items, i, lowerQuery, seen, out) ==
  IF i > Len(items)
    THEN out
    ELSE LET lower == toLowerCase(items[i].name)
         IN  IF lower \in seen
               THEN MatchFrom(items, i + 1, lowerQuery, seen, out)
               ELSE IF ~ includes(lower, lowerQuery)
                      THEN MatchFrom(items, i + 1, lowerQuery, seen, out)
                      ELSE MatchFrom(items, i + 1, lowerQuery,
                                     seen \cup { lower }, Append(out, items[i]))

RECURSIVE MatchFromSeenByName(_, _, _, _, _)
MatchFromSeenByName(items, i, lowerQuery, seen, out) ==
  IF i > Len(items)
    THEN out
    ELSE LET lower == toLowerCase(items[i].name)
         IN  IF items[i].name \in seen
               THEN MatchFromSeenByName(items, i + 1, lowerQuery, seen, out)
               ELSE IF ~ includes(lower, lowerQuery)
                      THEN MatchFromSeenByName(items, i + 1, lowerQuery, seen, out)
                      ELSE MatchFromSeenByName(items, i + 1, lowerQuery,
                                               seen \cup { items[i].name },
                                               Append(out, items[i]))

matchAutocompleteSeenByName(query, items) ==
  MatchFromSeenByName(items, 1, toLowerCase(query), {}, <<>>)

matchAutocomplete(query, items) ==
  MatchFrom(items, 1, toLowerCase(query), {}, <<>>)

(***************************************************************************)
(* The share codec, encoding side:                                         *)
(*   Buffer.from(JSON.stringify(data)).toString('base64')                  *)
(***************************************************************************)
HighSurrogates == 55296 .. 56319
LowSurrogates == 56320 .. 57343

\* Whether the code unit at index i is half of a surrogate pair: a high
\* surrogate with a low one after it, or a low one with a high one before.
InPair(s, i) ==
  \/ s[i] \in HighSurrogates /\ i < Len(s) /\ s[i + 1] \in LowSurrogates
  \/ s[i] \in LowSurrogates /\ i > 1 /\ s[i - 1] \in HighSurrogates

HexDigits ==
  Str(<<"0", "1", "2", "3", "4", "5", "6", "7", "8", "9",
        "a", "b", "c", "d", "e", "f">>)

\* The escape \uXXXX of a code unit, in lower-case hexadecimal.
UnicodeEscape(c) ==
  Str(<<"\\", "u">>)
    \o << HexDigits[(c \div 4096) + 1], HexDigits[((c \div 256) % 16) + 1],
          HexDigits[((c \div 16) % 16) + 1], HexDigits[(c % 16) + 1] >>

\* What QuoteJSONString writes for the code unit at index i: the short
\* escapes, \uXXXX for the other control characters and for a surrogate
\* that is not part of a pair, every other code unit as it is.
QuoteUnit(s, i) ==
  LET unit == s[i]
  IN  CASE unit = 8 -> Str(<<"\\", "b">>)
        [] unit = 9 -> Str(<<"\\", "t">>)
        [] unit = 10 -> Str(<<"\\", "n">>)
        [] unit = 12 -> Str(<<"\\", "f">>)
        [] unit = 13 -> Str(<<"\\", "r">>)
        [] unit = Ord("\"") -> Str(<<"\\", "\"">>)
        [] unit = Ord("\\") -> Str(<<"\\", "\\">>)
        [] unit < 32 /\ unit \notin { 8, 9, 10, 12, 13 } -> UnicodeEscape(unit)
        [] unit \in HighSurrogates \cup LowSurrogates /\ ~ InPair(s, i) ->
             UnicodeEscape(unit)
        [] OTHER -> << unit >>

QuoteJSONString(s) ==
  With(s, LAMBDA units :
    Str(<<"\"">>)
      \o Concat([i \in DOMAIN units |-> QuoteUnit(units, i)])
      \o Str(<<"\"">>))

\* The texts of parts with sep between them.
Join(parts, sep) ==
  With(parts, LAMBDA texts :
    Concat([k \in 1 .. ((2 * Len(texts)) - 1) |->
              IF k % 2 = 1 THEN texts[(k + 1) \div 2] ELSE sep]))

KeyName == Str(<<"n", "a", "m", "e">>)
KeyItems == Str(<<"i", "t", "e", "m", "s">>)
KeyCategory == Str(<<"c", "a", "t", "e", "g", "o", "r", "y">>)

\* JSON.stringify of an object whose properties are, in order, the keys of
\* members with the texts of their values.
SerializeJSONObject(members) ==
  With(members, LAMBDA pairs :
    Str(<<"{">>)
      \o Join([m \in DOMAIN pairs |->
                 QuoteJSONString(pairs[m][1]) \o Str(<<":">>) \o pairs[m][2]],
              Str(<<",">>))
      \o Str(<<"}">>))

SerializeJSONArray(elements) ==
  Str(<<"[">>) \o Join(elements, Str(<<",">>)) \o Str(<<"]">>)

\* JSON.stringify(value) for value = { name, items: [{ name, category }] }.
JSONStringify(value) ==
  SerializeJSONObject(<<
    << KeyName, QuoteJSONString(value.name) >>,
    << KeyItems,
       SerializeJSONArray([i \in DOMAIN value.items |->
         SerializeJSONObject(<<
           << KeyName, QuoteJSONString(value.items[i].name) >>,
           << KeyCategory, QuoteJSONString(value.items[i].category) >> >>)]) >> >>)

\* The UTF-8 bytes that Buffer.from(string) writes for the code unit at
\* index i: a surrogate pair is one 4-byte character, written at its high
\* half; a lone surrogate is U+FFFD.
Utf8Unit(s, i) ==
  LET unit == s[i]
  IN  IF unit < 128
        THEN << unit >>
        ELSE IF unit < 2048
          THEN << 192 + (unit \div 64), 128 + (unit % 64) >>
          ELSE IF unit \in HighSurrogates /\ InPair(s, i)
            THEN LET point == 65536 + ((unit - 55296) * 1024)
                                + (s[i + 1] - 56320)
                 IN  << 240 + (point \div 262144),
                        128 + ((point \div 4096) % 64),
                        128 + ((point \div 64) % 64),
                        128 + (point % 64) >>
            ELSE IF unit \in LowSurrogates /\ InPair(s, i)
              THEN <<>>
              ELSE IF unit \in HighSurrogates \cup LowSurrogates
                THEN << 239, 191, 189 >>
                ELSE << 224 + (unit \div 4096),
                        128 + ((unit \div 64) % 64),
                        128 + (unit % 64) >>

Utf8Encode(s) ==
  With(s, LAMBDA units : Concat([i \in DOMAIN units |-> Utf8Unit(units, i)]))

Base64Alphabet ==
  Str(<<
        "A", "B", "C", "D", "E", "F", "G", "H", "I", "J", "K", "L", "M",
        "N", "O", "P", "Q", "R", "S", "T", "U", "V", "W", "X", "Y", "Z",
        "a", "b", "c", "d", "e", "f", "g", "h", "i", "j", "k", "l", "m",
        "n", "o", "p", "q", "r", "s", "t", "u", "v", "w", "x", "y", "z",
        "0", "1", "2", "3", "4", "5", "6", "7", "8", "9", "+", "/" >>)

\* buf.toString('base64'): three bytes give four characters, a last group
\* of one or two bytes is padded with "=".
Base64Encode(bytes) ==
  With(bytes, LAMBDA octets :
    [k \in 1 .. (4 * ((Len(octets) + 2) \div 3)) |->
       LET at == (3 * ((k - 1) \div 4)) + 1
           b1 == octets[at]
           b2 == IF at + 1 <= Len(octets) THEN octets[at + 1] ELSE 0
           b3 == IF at + 2 <= Len(octets) THEN octets[at + 2] ELSE 0
       IN  CASE k % 4 = 1 -> Base64Alphabet[(b1 \div 4) + 1]
             [] k % 4 = 2 ->
                  Base64Alphabet[((b1 % 4) * 16) + (b2 \div 16) + 1]
             [] k % 4 = 3 ->
                  IF at + 1 <= Len(octets)
                    THEN Base64Alphabet[((b2 % 16) * 4) + (b3 \div 64) + 1]
                    ELSE Ord("=")
             [] OTHER ->
                  IF at + 2 <= Len(octets)
                    THEN Base64Alphabet[(b3 % 64) + 1]
                    ELSE Ord("=")])

\* The share payload with done kept among the fields of an item.
encodeListForShareKeepingDone(list) ==
  Base64Encode(
    Utf8Encode(
      SerializeJSONObject(<<
        << KeyName, QuoteJSONString(list.name) >>,
        << KeyItems,
           SerializeJSONArray([i \in DOMAIN list.items |->
             SerializeJSONObject(<<
               << KeyName, QuoteJSONString(list.items[i].name) >>,
               << KeyCategory, QuoteJSONString(list.items[i].category) >>,
               << Str(<<"d", "o", "n", "e">>),
                  IF list.items[i].done
                    THEN Str(<<"t", "r", "u", "e">>)
                    ELSE Str(<<"f", "a", "l", "s", "e">>) >> >>)]) >> >>)))

encodeListForShare(list) ==
  LET data == [name |-> list.name,
               items |-> [i \in DOMAIN list.items |->
                            [name |-> list.items[i].name,
                             category |-> list.items[i].category]]]
  IN  Base64Encode(Utf8Encode(JSONStringify(data)))

(***************************************************************************)
(* The share codec, decoding side:                                         *)
(*   JSON.parse(Buffer.from(encoded, 'base64').toString('utf8'))           *)
(***************************************************************************)
\* The value of a base64 character, of either alphabet; 64 for any other.
Unbase64(c) ==
  IF \E k \in DOMAIN Base64Alphabet : Base64Alphabet[k] = c
    THEN (CHOOSE k \in DOMAIN Base64Alphabet : Base64Alphabet[k] = c) - 1
    ELSE IF c = Ord("-")
           THEN 62
           ELSE IF c = Ord("_") THEN 63 ELSE 64

\* The values the decoder reads: a character that is no base64 character is
\* skipped, and the first "=" ends the decoding.
Base64Values(encoded) ==
  With({ i \in DOMAIN encoded : encoded[i] = Ord("=") }, LAMBDA pads :
    Concat([i \in 1 .. (IF pads = {} THEN Len(encoded) ELSE Min(pads) - 1) |->
              IF Unbase64(encoded[i]) < 64
                THEN << Unbase64(encoded[i]) >>
                ELSE <<>>]))

\* The bytes of the values: four values give three bytes, a last group of
\* three gives two, of two gives one, of one gives none.
Base64Bytes(values) ==
  With(values, LAMBDA sextets :
    [k \in 1 .. ((3 * (Len(sextets) \div 4))
                   + (IF Len(sextets) % 4 <= 1 THEN 0 ELSE (Len(sextets) % 4) - 1))
       |->
       LET at == (4 * ((k - 1) \div 3)) + 1
       IN  CASE k % 3 = 1 -> (sextets[at] * 4) + (sextets[at + 1] \div 16)
             [] k % 3 = 2 ->
                  ((sextets[at + 1] % 16) * 16) + (sextets[at + 2] \div 4)
             [] OTHER -> ((sextets[at + 2] % 4) * 64) + sextets[at + 3]])

\* Buffer.from(encoded, 'base64'): it never throws.
Base64Decode(encoded) ==
  With(encoded, LAMBDA text : Base64Bytes(Base64Values(text)))

\* The code units of a code point.
CodeUnits(cp) ==
  IF cp < 65536
    THEN << cp >>
    ELSE << 55296 + ((cp - 65536) \div 1024), 56320 + ((cp - 65536) % 1024) >>

\* A reader that stands at index from, at or after lo, and moves step[j]
\* forward from each index j it stands at: heads are the indexes of lo..hi
\* it stands at, next is the first index after hi it stands at.  The range
\* is read by halves.
RECURSIVE Scan(_, _, _, _)
Scan(step, lo, hi, from) ==
  IF from > hi
    THEN [heads |-> <<>>, next |-> from]
    ELSE IF lo = hi
      THEN [heads |-> << from >>, next |-> from + step[from]]
      ELSE With((lo + hi) \div 2, LAMBDA half :
           With(Scan(step, lo, half, from), LAMBDA left :
           With(Scan(step, half + 1, hi, left.next), LAMBDA right :
             [heads |-> left.heads \o right.heads, next |-> right.next])))

\* The continuation bytes that a character led by byte b needs, and the
\* range the k-th of them must lie in.
Utf8Needed(b) ==
  IF b \in 194 .. 223 THEN 1
  ELSE IF b \in 224 .. 239 THEN 2
  ELSE IF b \in 240 .. 244 THEN 3 ELSE 0

Utf8Range(b, k) ==
  IF k > 1
    THEN 128 .. 191
    ELSE (IF b = 224 THEN 160 ELSE IF b = 240 THEN 144 ELSE 128)
           .. (IF b = 237 THEN 159 ELSE IF b = 244 THEN 143 ELSE 191)

\* The continuation bytes found after the lead byte at index i.
Utf8Found(bytes, i) ==
  LET fits == { m \in 0 .. Utf8Needed(bytes[i]) :
                  \A k \in 1 .. m :
                     /\ i + k <= Len(bytes)
                     /\ bytes[i + k] \in Utf8Range(bytes[i], k) }
  IN  CHOOSE m \in fits : \A o \in fits : o <= m

\* What buf.toString('utf8') reads at index i, where a character starts: a
\* whole character gives its code units; a byte that cannot start one, or a
\* character cut short by a byte that cannot continue it or by the end,
\* gives U+FFFD, and the reading goes on at the byte that cut it short.
Utf8Units(bytes, i) ==
  LET lead == bytes[i]
      found == Utf8Found(bytes, i)
  IN  IF lead <= 127
        THEN << lead >>
        ELSE IF Utf8Needed(lead) = 0 \/ found < Utf8Needed(lead)
          THEN << 65533 >>
          ELSE IF found = 1
            THEN CodeUnits(((lead - 192) * 64) + (bytes[i + 1] - 128))
            ELSE IF found = 2
              THEN CodeUnits(((lead - 224) * 4096)
                               + ((bytes[i + 1] - 128) * 64)
                               + (bytes[i + 2] - 128))
              ELSE CodeUnits(((lead - 240) * 262144)
                               + ((bytes[i + 1] - 128) * 4096)
                               + ((bytes[i + 2] - 128) * 64)
                               + (bytes[i + 3] - 128))

Utf8Decode(bytes) ==
  With(bytes, LAMBDA octets :
  With([i \in DOMAIN octets |-> 1 + Utf8Found(octets, i)], LAMBDA taken :
  With(Scan(taken, 1, Len(octets), 1).heads, LAMBDA heads :
    Concat([k \in DOMAIN heads |-> Utf8Units(octets, heads[k])]))))

(***************************************************************************)
(* JSON.parse.  A parser returns [ok, v, pos]: whether it read a value,   *)
(* the value, and the index after it.  A string value is JStr(units), an  *)
(* array [t |-> "array", v |-> elements], an object [t |-> "object",      *)
(* v |-> the map of its properties], a number its text.                   *)
(***************************************************************************)
Fail == [ok |-> FALSE, v |-> Null, pos |-> 0]
Ok(v, pos) == [ok |-> TRUE, v |-> v, pos |-> pos]

JArr(elements) == [t |-> "array", v |-> elements]
JObj(members) == [t |-> "object", v |-> members]
JNum(text) == [t |-> "number", v |-> text]
JBool(b) == [t |-> "boolean", v |-> b]

JSONWhitespace == { 32, 9, 10, 13 }
DecimalDigits == Ord("0") .. Ord("9")

\* The first index from i on that holds no character of skipped, or the
\* index after the end of s.
SkipWhile(s, i, skipped) ==
  IF i > Len(s)
    THEN i
    ELSE CHOOSE j \in i .. (Len(s) + 1) :
           /\ j > Len(s) \/ s[j] \notin skipped
           /\ \A k \in i .. (j - 1) : s[k] \in skipped

SkipWhitespace(s, i) == SkipWhile(s, i, JSONWhitespace)

\* Whether word stands in s at index i.
StandsAt(s, i, word) ==
  /\ i + Len(word) - 1 <= Len(s)
  /\ \A k \in DOMAIN word : s[i + k - 1] = word[k]

\* The value of a hexadecimal digit; 16 for any other character.
HexValue(c) ==
  IF c \in DecimalDigits
    THEN c - Ord("0")
    ELSE IF c \in Ord("a") .. Ord("f")
           THEN c - Ord("a") + 10
           ELSE IF c \in Ord("A") .. Ord("F") THEN c - Ord("A") + 10 ELSE 16

\* The character that the escape \c stands for; 0 when there is none.
SimpleEscape(c) ==
  CASE c = Ord("\"") -> Ord("\"")
    [] c = Ord("\\") -> Ord("\\")
    [] c = Ord("/") -> Ord("/")
    [] c = Ord("b") -> 8
    [] c = Ord("f") -> 12
    [] c = Ord("n") -> 10
    [] c = Ord("r") -> 13
    [] c = Ord("t") -> 9
    [] OTHER -> 0

\* The length of what stands at index j inside a string: 1 for a character
\* written as it is, 2 and 6 for the escapes, and 0 for what no character
\* of a string starts with (the closing quote, a control character, a
\* faulty escape).
StringTaken(s, j) ==
  IF s[j] = Ord("\"") \/ s[j] < 32
    THEN 0
    ELSE IF s[j] # Ord("\\")
      THEN 1
      ELSE IF j + 1 > Len(s)
        THEN 0
        ELSE IF SimpleEscape(s[j + 1]) # 0
          THEN 2
          ELSE IF /\ s[j + 1] = Ord("u")
                  /\ j + 5 <= Len(s)
                  /\ \A k \in 2 .. 5 : HexValue(s[j + k]) < 16
            THEN 6
            ELSE 0

\* The code unit that the character at index j inside a string stands for.
StringUnit(s, j) ==
  IF s[j] # Ord("\\")
    THEN s[j]
    ELSE IF SimpleEscape(s[j + 1]) # 0
      THEN SimpleEscape(s[j + 1])
      ELSE (HexValue(s[j + 2]) * 4096) + (HexValue(s[j + 3]) * 256)
             + (HexValue(s[j + 4]) * 16) + HexValue(s[j + 5])

\* A string from index i, after its opening quote, to its closing quote.
\* The reading stops at the first index where no character starts; the
\* string is read when that index holds the closing quote.  The string
\* ends no later than at the first quote that follows no backslash.
ParseString(s, i) ==
  IF i > Len(s) THEN Fail ELSE
  With(CHOOSE e \in i .. Len(s) :
         \/ e = Len(s)
         \/ /\ s[e] = Ord("\"") /\ (e = i \/ s[e - 1] # Ord("\\"))
            /\ \A k \in i .. (e - 1) :
                  ~ (s[k] = Ord("\"") /\ (k = i \/ s[k - 1] # Ord("\\"))),
       LAMBDA end :
  With(Scan([j \in i .. end |->
               IF StringTaken(s, j) = 0 THEN end + 1 - j ELSE StringTaken(s, j)],
            i, end, i).heads,
       LAMBDA heads :
    IF heads = <<>> \/ s[heads[Len(heads)]] # Ord("\"")
      THEN Fail
      ELSE Ok([k \in 1 .. (Len(heads) - 1) |-> StringUnit(s, heads[k])],
              heads[Len(heads)] + 1)))

\* The index after the digits that start at index i.
DigitsEnd(s, i) == SkipWhile(s, i, DecimalDigits)

\* A number at index i: -? (0 | [1-9][0-9]*) (. [0-9]+)? ([eE] [+-]? [0-9]+)?
\* intEnd, fracEnd and expEnd are the indexes after its integer part, its
\* fraction and its exponent.
ParseNumber(s, i) ==
  With(IF i <= Len(s) /\ s[i] = Ord("-") THEN i + 1 ELSE i, LAMBDA intAt :
  With(IF intAt <= Len(s) /\ s[intAt] = Ord("0")
         THEN intAt + 1
         ELSE DigitsEnd(s, intAt),
       LAMBDA intEnd :
  With(IF intEnd <= Len(s) /\ s[intEnd] = Ord(".")
         THEN DigitsEnd(s, intEnd + 1)
         ELSE intEnd,
       LAMBDA fracEnd :
  With(fracEnd <= Len(s) /\ s[fracEnd] \in { Ord("e"), Ord("E") },
       LAMBDA hasExp :
  With(IF hasExp /\ fracEnd + 1 <= Len(s)
            /\ s[fracEnd + 1] \in { Ord("+"), Ord("-") }
         THEN fracEnd + 2
         ELSE fracEnd + 1,
       LAMBDA expAt :
  With(IF hasExp THEN DigitsEnd(s, expAt) ELSE fracEnd, LAMBDA expEnd :
    IF /\ intEnd > intAt
       /\ (fracEnd = intEnd \/ fracEnd > intEnd + 1)
       /\ (~ hasExp \/ expEnd > expAt)
      THEN Ok(JNum(SubSeq(s, i, expEnd - 1)), expEnd)
      ELSE Fail))))))

RECURSIVE ParseValue(_, _)
RECURSIVE ParseElements(_, _, _)
RECURSIVE ParseMembers(_, _, _)

\* The elements of an array from index i on, a value expected; acc holds
\* the elements read.
ParseElements(s, i, acc) ==
  With(ParseValue(s, i), LAMBDA element :
    LET after == SkipWhitespace(s, element.pos)
    IN  IF ~ element.ok \/ after > Len(s)
          THEN Fail
          ELSE IF s[after] = Ord(",")
            THEN ParseElements(s, after + 1, Append(acc, element.v))
            ELSE IF s[after] = Ord("]")
              THEN Ok(JArr(Append(acc, element.v)), after + 1)
              ELSE Fail)

\* The members of an object from index i on, a key expected; acc holds the
\* properties read.  A key read again replaces its earlier value.
ParseMembers(s, i, acc) ==
  LET keyAt == SkipWhitespace(s, i)
  IN  IF keyAt > Len(s) \/ s[keyAt] # Ord("\"")
        THEN Fail
        ELSE With(ParseString(s, keyAt + 1), LAMBDA key :
          LET colonAt == SkipWhitespace(s, key.pos)
          IN  IF ~ key.ok \/ colonAt > Len(s) \/ s[colonAt] # Ord(":")
                THEN Fail
                ELSE With(ParseValue(s, colonAt + 1), LAMBDA member :
                  LET after == SkipWhitespace(s, member.pos)
                  IN  IF ~ member.ok \/ after > Len(s)
                        THEN Fail
                        ELSE IF s[after] = Ord(",")
                          THEN ParseMembers(s, after + 1,
                                            (key.v :> member.v) @@ acc)
                          ELSE IF s[after] = Ord("}")
                            THEN Ok(JObj((key.v :> member.v) @@ acc),
                                    after + 1)
                            ELSE Fail))

\* A value from index i on, after any whitespace.
ParseValue(s, i) ==
  LET at == SkipWhitespace(s, i)
      inside == SkipWhitespace(s, at + 1)
  IN  IF at > Len(s)
        THEN Fail
        ELSE IF s[at] = Ord("{")
          THEN IF inside <= Len(s) /\ s[inside] = Ord("}")
                 THEN Ok(JObj(EmptyObject), inside + 1)
                 ELSE ParseMembers(s, at + 1, EmptyObject)
          ELSE IF s[at] = Ord("[")
            THEN IF inside <= Len(s) /\ s[inside] = Ord("]")
                   THEN Ok(JArr(<<>>), inside + 1)
                   ELSE ParseElements(s, at + 1, <<>>)
            ELSE IF s[at] = Ord("\"")
              THEN With(ParseString(s, at + 1), LAMBDA str :
                     IF str.ok THEN Ok(JStr(str.v), str.pos) ELSE Fail)
              ELSE IF StandsAt(s, at, Str(<<"t", "r", "u", "e">>))
                THEN Ok(JBool(TRUE), at + 4)
                ELSE IF StandsAt(s, at, Str(<<"f", "a", "l", "s", "e">>))
                  THEN Ok(JBool(FALSE), at + 5)
                  ELSE IF StandsAt(s, at, Str(<<"n", "u", "l", "l">>))
                    THEN Ok(Null, at + 4)
                    ELSE ParseNumber(s, at)

\* JSON.parse(text): one value and nothing but whitespace around it;
\* ok is FALSE where JSON.parse throws a SyntaxError.
JSONParse(text) ==
  With(text, LAMBDA s :
  With(ParseValue(s, 1), LAMBDA parsed :
    IF parsed.ok /\ SkipWhitespace(s, parsed.pos) > Len(s)
      THEN parsed
      ELSE Fail))

\* const json = Buffer.from(encoded, 'base64').toString('utf8');
\* return JSON.parse(json), or null where JSON.parse throws.
decodeSharedList(encoded) ==
  With(Utf8Decode(Base64Decode(encoded)), LAMBDA json :
  With(JSONParse(json), LAMBDA parsed :
    IF parsed.ok THEN parsed.v ELSE Null))

(***************************************************************************)
(* State: the list the caller owns, and the last call made on the logic   *)
(* layer (the function, its arguments, whether it returned or threw, and  *)
(* the value).  memo is a history variable: one earlier call, remembered, *)
(* and whether a call of another function has been made since.            *)
(***************************************************************************)
VARIABLES list, op, args, outcome, result, memo

vars == << list, op, args, outcome, result, memo >>

NoCall ==
  [op |-> "none", args |-> <<>>, outcome |-> "none", result |-> Undefined,
   others |-> FALSE]

\* All sequences over S of length at most n.
SeqsUpTo(S, n) == UNION { [1 .. k -> S] : k \in 0 .. n }

\* Every spelling of s in upper and lower case.
RECURSIVE CaseVariants(_)
CaseVariants(s) ==
  IF s = <<>>
    THEN { <<>> }
    ELSE { << c >> \o rest :
             c \in { ToLowerUnit(Head(s)), ToUpperUnit(Head(s)) },
             rest \in CaseVariants(Tail(s)) }

(***************************************************************************)
(* Inputs of the text functions.                                           *)
(***************************************************************************)
TextAlphabet ==
  { Ord("&"), Ord("<"), Ord(">"), Ord("\""), Ord("'"), Ord("a"), Ord(";") }

Texts == SeqsUpTo(TextAlphabet, MaxTextLen)

\* Names for findCategory: every case spelling of each known name, of each
\* known name cut by its last letter, and of each known name with an "s"
\* added, and two unknown names.
FindInputs ==
  UNION { CaseVariants(COMMON_ITEMS[i].name)
            \cup CaseVariants(SubSeq(COMMON_ITEMS[i].name, 1,
                                     Len(COMMON_ITEMS[i].name) - 1))
            \cup CaseVariants(COMMON_ITEMS[i].name \o Str(<<"s">>))
          : i \in DOMAIN COMMON_ITEMS }
    \cup { <<>>, Str(<<"T", "o", "f", "u">>) }

zzz == Str(<<"z", "z", "z">>)

ItemNames == { <<>>, Milk, Str(<<"m", "i", "l", "k">>), Str(<<"T", "o", "f", "u">>) }

\* The category argument of createItem: absent, null, or a string.
CategoryArgs ==
  { Undefined, Null, JStr(<<>>), JStr(zzz), JStr(constructor) }
    \cup { JStr(c) : c \in CategoryIds }

\* Readings of Date.now() and fraction digits of Math.random().
Times == { Len(Digits36) - 1, Len(Digits36) }
Fractions == { <<>>, Str(<<"a">>), Str(<<"z", "9">>) }

\* The calls of the text functions: a function and its arguments.
TextCalls ==
  { [op |-> "escapeHtml", args |-> << text >>] : text \in Texts }
    \cup { [op |-> "findCategory", args |-> << n >>] : n \in FindInputs }
    \cup { [op |-> "createList", args |-> << n >>] : n \in ItemNames }
    \cup { [op |-> "createItem", args |-> << n, c >>] :
             n \in ItemNames, c \in CategoryArgs }

EmptyList == [id |-> <<>>, name |-> <<>>, items |-> <<>>]

\* A caller about to make one call of a text function.
InitText ==
  /\ list = EmptyList
  /\ \E call \in TextCalls : op = call.op /\ args = call.args
  /\ outcome = "pending"
  /\ result = Undefined
  /\ memo = NoCall

EscapeHtml ==
  /\ op = "escapeHtml" /\ outcome = "pending"
  /\ outcome' = "return"
  /\ result' = escapeHtml(args[1])
  /\ UNCHANGED << list, op, args, memo >>

FindCategory ==
  /\ op = "findCategory" /\ outcome = "pending"
  /\ outcome' = "return"
  /\ result' = findCategory(args[1])
  /\ UNCHANGED << list, op, args, memo >>

CreateList ==
  /\ op = "createList" /\ outcome = "pending"
  /\ \E now \in Times, frac \in Fractions :
       result' = createList(args[1], now, frac)
  /\ outcome' = "return"
  /\ UNCHANGED << list, op, args, memo >>

CreateItem ==
  /\ op = "createItem" /\ outcome = "pending"
  /\ \E now1 \in Times, frac \in Fractions, now2 \in Times :
       /\ now1 <= now2
       /\ result' = createItem(args[1], args[2], now1, frac, now2)
  /\ outcome' = "return"
  /\ UNCHANGED << list, op, args, memo >>

NextText == EscapeHtml \/ FindCategory \/ CreateList \/ CreateItem

SpecText == InitText /\ [][NextText]_vars

(***************************************************************************)
(* C7  escapeHtml: the five sequential replacements give what replacing   *)
(* each input character on its own gives; the output holds none of        *)
(* < > " ' and a text without the five characters comes back unchanged.   *)
(***************************************************************************)
EntityOf(c) ==
  CASE c = Ord("&") -> AmpEntity
    [] c = Ord("<") -> LtEntity
    [] c = Ord(">") -> GtEntity
    [] c = Ord("\"") -> QuotEntity
    [] c = Ord("'") -> AposEntity
    [] OTHER -> << c >>

Range(s) == { s[i] : i \in DOMAIN s }

HtmlSpecials == { Ord("&"), Ord("<"), Ord(">"), Ord("\""), Ord("'") }

C7_EscapeIsCharwise ==
  (op = "escapeHtml" /\ outcome = "return") =>
    LET given == args[1]
    IN  /\ result = Concat([i \in DOMAIN given |-> EntityOf(given[i])])
        /\ Range(result) \cap (HtmlSpecials \ { Ord("&") }) = {}
        /\ (Range(given) \cap HtmlSpecials = {} => result = given)

\* "<&'" escaped: the ampersands of &lt; and &#039; are not escaped again.
C7_Witness ==
  /\ op = "escapeHtml" /\ outcome = "return"
  /\ args[1] = Str(<<"<", "&", "'">>)
  /\ result = LtEntity \o AmpEntity \o AposEntity

(***************************************************************************)
(* C8  findCategory: the category of the common item whose name equals    *)
(* the argument ignoring case, "other" when there is none (a longer or    *)
(* shorter name is no match); the same for every case spelling of the     *)
(* argument; always an id of the catalog.                                  *)
(***************************************************************************)
EqualIgnoringCase(a, b) ==
  /\ Len(a) = Len(b)
  /\ \A i \in DOMAIN a : ToUpperUnit(a[i]) = ToUpperUnit(b[i])

C8_FindCategoryExactIgnoringCase ==
  (op = "findCategory" /\ outcome = "return") =>
    LET asked == args[1]
        matches == { i \in DOMAIN COMMON_ITEMS :
                       EqualIgnoringCase(COMMON_ITEMS[i].name, asked) }
    IN  /\ \A i \in matches : result = COMMON_ITEMS[i].category
        /\ (matches = {} => result = other)
        /\ \A v \in CaseVariants(asked) : findCategory(v) = result
        /\ result \in CategoryIds

\* "mILK" gives dairy.
C8_Witness ==
  /\ op = "findCategory" /\ outcome = "return"
  /\ args[1] = Str(<<"m", "I", "L", "K">>)
  /\ result = dairy

\* "Milks" and "Mil" give other.
C8_WitnessNear ==
  /\ op = "findCategory" /\ outcome = "return"
  /\ args[1] \in { Milk \o Str(<<"s">>), Str(<<"M", "i", "l">>) }
  /\ result = other

(***************************************************************************)
(* C9  Item invariant: every item createItem returns has done = false and *)
(* a category of the catalog, whatever the category argument.             *)
(***************************************************************************)
C9_ItemInvariant ==
  (op = "createItem" /\ outcome = "return") =>
    /\ result.done = FALSE
    /\ result.category \in CategoryIds

(***************************************************************************)
(* The query functions, called in any order on the item array of the      *)
(* caller's list.                                                          *)
(***************************************************************************)
Tofu == Str(<<"T", "o", "f", "u">>)
SoyMilk == Str(<<"S", "o", "y", " ", "m", "i", "l", "k">>)

Item(id, name, category, done) ==
  [id |-> Str(<< id >>), name |-> name, category |-> category,
   done |-> done, createdAt |-> Len(Digits36)]

\* "Milk" and "MILK" differ only in case; "Soy milk" contains "milk"; the
\* category of "Tofu" was given to createItem by hand.
ItemPool ==
  { Item("1", Milk, dairy, FALSE),
    Item("2", Str(<<"M", "I", "L", "K">>), dairy, TRUE),
    Item("3", Eggs, dairy, TRUE),
    Item("4", SoyMilk, beverages, FALSE),
    Item("5", Tofu, constructor, FALSE) }

FilterArgs == { all, dairy, frozen, constructor }

Queries ==
  { <<>>, Str(<<"m", "i", "l">>), Str(<<"M", "I", "L", "K">>),
    Str(<<"e">>), Str(<<"x", "y", "z">>) }

Returned(value) == [outcome |-> "return", value |-> value]

\* The call of function o with arguments a ended as r; memo keeps its
\* earlier call or remembers this one.
Called(o, a, r) ==
  /\ op' = o
  /\ args' = a
  /\ outcome' = r.outcome
  /\ result' = r.value
  /\ \E keep \in BOOLEAN :
       memo' = IF keep
                 THEN [memo EXCEPT !.others = @ \/ (memo.op \notin { "none", o })]
                 ELSE [op |-> o, args |-> a, outcome |-> r.outcome,
                       result |-> r.value, others |-> FALSE]

Init ==
  /\ \E items \in SeqsUpTo(ItemPool, MaxItems) :
       list = [id |-> Str(<<"l", "1">>), name |-> Str(<<"W", "e", "e", "k">>),
               items |-> items]
  /\ op = "none"
  /\ args = <<>>
  /\ outcome = "none"
  /\ result = Undefined
  /\ memo = NoCall

FilterItemsByCategory ==
  \E category \in FilterArgs :
    /\ Called("filterItemsByCategory", << list.items, category >>,
              Returned(filterItemsByCategory(list.items, category)))
    /\ UNCHANGED list

GroupItemsByCategory ==
  /\ Called("groupItemsByCategory", << list.items >>,
            groupItemsByCategory(list.items))
  /\ UNCHANGED list

CountCompleted ==
  /\ Called("countCompleted", << list.items >>,
            Returned(countCompleted(list.items)))
  /\ UNCHANGED list

\* clearCompleted written with splice on the caller's array.
ClearCompletedInPlace ==
  /\ Called("clearCompleted", << list.items >>,
            Returned(clearCompleted(list.items)))
  /\ list' = [list EXCEPT !.items = clearCompleted(list.items)]

ClearCompleted ==
  /\ Called("clearCompleted", << list.items >>,
            Returned(clearCompleted(list.items)))
  /\ UNCHANGED list

MatchAutocomplete ==
  \E query \in Queries :
    /\ Called("matchAutocomplete", << query, list.items >>,
              Returned(matchAutocomplete(query, list.items)))
    /\ UNCHANGED list

Next ==
  \/ FilterItemsByCategory
  \/ GroupItemsByCategory
  \/ CountCompleted
  \/ ClearCompleted
  \/ MatchAutocomplete

Spec == Init /\ [][Next]_vars

\* The elements of arr at the indices in at, in their order in arr.
SubseqAt(arr, at) ==
  [j \in 1 .. Cardinality(at) |->
     arr[CHOOSE i \in at : Cardinality({ k \in at : k <= i }) = j]]

(***************************************************************************)
(* C3  matchAutocomplete returns, in input order, exactly the items whose *)
(* lower-cased name contains the lower-cased query and that are the first *)
(* item of the input with that lower-cased name; no two returned names    *)
(* are equal ignoring case; the empty query gives one item for every      *)
(* distinct case-folded name.                                              *)
(***************************************************************************)
C3_AutocompleteFirstMatches ==
  (op = "matchAutocomplete" /\ outcome = "return") =>
    LET asked == args[1]
        given == args[2]
        keep == { i \in DOMAIN given :
                    /\ includes(toLowerCase(given[i].name), toLowerCase(asked))
                    /\ \A j \in 1 .. (i - 1) :
                          toLowerCase(given[j].name) # toLowerCase(given[i].name) }
    IN  /\ result = SubseqAt(given, keep)
        /\ \A a, b \in DOMAIN result :
              a # b => ~ EqualIgnoringCase(result[a].name, result[b].name)
        /\ (asked = <<>> =>
              Len(result)
                = Cardinality({ toLowerCase(given[i].name) : i \in DOMAIN given }))

\* "mil" over Milk, MILK, Soy milk: MILK is dropped as a duplicate of Milk.
C3_Witness ==
  /\ op = "matchAutocomplete" /\ outcome = "return"
  /\ args[1] = Str(<<"m", "i", "l">>)
  /\ Len(args[2]) = 3
  /\ args[2][1].name = Milk
  /\ args[2][2].name = Str(<<"M", "I", "L", "K">>)
  /\ args[2][3].name = SoyMilk
  /\ result = << args[2][1], args[2][3] >>

(***************************************************************************)
(* C4  groupItemsByCategory partitions its input: the keys are exactly    *)
(* the categories that occur, and the sequence under key c is the         *)
(* subsequence of the items of category c, in order.                      *)
(***************************************************************************)
C4_GroupingPartitions ==
  (op = "groupItemsByCategory" /\ outcome # "pending") =>
    LET given == args[1]
    IN  /\ outcome = "return"
        /\ DOMAIN result = { given[i].category : i \in DOMAIN given }
        /\ \A c \in DOMAIN result :
              result[c] = SubseqAt(given, { i \in DOMAIN given :
                                              given[i].category = c })

(***************************************************************************)
(* C5  filterItemsByCategory returns its input for "all", and for every   *)
(* other category the subsequence of the items of that category.          *)
(***************************************************************************)
C5_FilterByCategory ==
  (op = "filterItemsByCategory" /\ outcome = "return") =>
    LET given == args[1]
        wanted == args[2]
    IN  IF wanted = all
          THEN result = given
          ELSE result = SubseqAt(given, { i \in DOMAIN given :
                                            given[i].category = wanted })

\* "all" over a list that holds items of two categories.
C5_Witness ==
  /\ op = "filterItemsByCategory" /\ outcome = "return"
  /\ args[2] = all
  /\ Cardinality({ args[1][i].category : i \in DOMAIN args[1] }) > 1
  /\ result = args[1]

(***************************************************************************)
(* C6  clearCompleted is the subsequence of the items not done,           *)
(* countCompleted the number of items done; countCompleted of what        *)
(* clearCompleted returns is 0, and the count and the length of the       *)
(* cleared array add up to the length of the input.                       *)
(***************************************************************************)
C6_ClearThenCountIsZero ==
  /\ (op = "clearCompleted" /\ outcome = "return") =>
       LET given == args[1]
       IN  /\ result = SubseqAt(given, { i \in DOMAIN given : ~ given[i].done })
           /\ countCompleted(result) = 0
           /\ countCompleted(given) + Len(result) = Len(given)
  /\ (op = "countCompleted" /\ outcome = "return") =>
       LET given == args[1]
       IN  result = Cardinality({ i \in DOMAIN given : given[i].done })

\* A list with items done and not done, cleared.
C6_Witness ==
  /\ op = "clearCompleted" /\ outcome = "return"
  /\ \E i, j \in DOMAIN args[1] : args[1][i].done /\ ~ args[1][j].done
  /\ Len(result) < Len(args[1])
  /\ Len(result) > 0

(***************************************************************************)
(* C10  The query functions are pure: no call changes the caller's list   *)
(* or its items, and a call repeated with the same arguments after other  *)
(* calls ends as it did before.                                            *)
(***************************************************************************)
RepeatAgrees ==
  (memo.op = op /\ memo.args = args) =>
    (memo.outcome = outcome /\ memo.result = result)

MaxNameLen == 2
MaxShareItems == 2
MaxReceivedLen == 5

\* Code units of list names: the quote, which JSON escapes, and the halves
\* of a surrogate pair (a 4-byte character when paired, lone otherwise).
NameAlphabet == { Ord("\""), 55357, 56832 }

ShareNames == SeqsUpTo(NameAlphabet, MaxNameLen)

\* Items of shared lists: a plain one that is done; one with a 3-byte
\* character, a backslash, a line feed and a 2-byte character in its name
\* and a category given by hand; and one without a name.
SharePool ==
  { Item("1", Milk, dairy, TRUE),
    Item("2", << 8364, Ord("\\"), 10, 233 >>, constructor, FALSE),
    Item("3", <<>>, other, FALSE) }

ShareLists ==
  { [id |-> Str(<<"l", "1">>), name |-> n, items |-> its] :
      n \in ShareNames, its \in SeqsUpTo(SharePool, MaxShareItems) }

\* Texts that no encoder wrote: the short texts over "M", "Q", "!" and "=",
\* and the text of the test of invalid data.
ReceivedTexts ==
  SeqsUpTo({ Ord("M"), Ord("Q"), Ord("!"), Ord("=") }, MaxReceivedLen)
    \cup { Str(<<"n", "o", "t", "-", "v", "a", "l", "i", "d", "-",
                 "b", "a", "s", "e", "6", "4", "!", "!", "!">>) }

Bangs == Str(<<"!", "!", "!">>)

\* What may arrive of a text sent: the text itself, the text with "!!!"
\* after it, before it or inside it, and the text without its last
\* character or its last four.
Arrivals(sent) ==
  { sent,
    sent \o Bangs,
    Bangs \o sent,
    SubSeq(sent, 1, Len(sent) \div 2) \o Bangs
      \o SubSeq(sent, (Len(sent) \div 2) + 1, Len(sent)),
    SubSeq(sent, 1, Len(sent) - 1),
    SubSeq(sent, 1, Len(sent) - 4) }

\* A caller with a list to share, or a receiver about to decode a text.
InitShare ==
  /\ \/ /\ list \in ShareLists
        /\ op = "none" /\ args = <<>> /\ outcome = "none"
     \/ /\ list = EmptyList
        /\ op = "decodeSharedList"
        /\ \E received \in ReceivedTexts : args = << received >>
        /\ outcome = "pending"
  /\ result = Undefined
  /\ memo = NoCall

EncodeListForShare ==
  /\ op = "none"
  /\ op' = "encodeListForShare"
  /\ args' = << list >>
  /\ outcome' = "return"
  /\ result' = encodeListForShare(list)
  /\ UNCHANGED << list, memo >>

\* The receiver decodes the text it holds, or what arrives of the text the
\* caller's encodeListForShare returned; memo keeps that call.
DecodeSharedList ==
  \/ /\ op = "decodeSharedList" /\ outcome = "pending"
     /\ outcome' = "return"
     /\ result' = decodeSharedList(args[1])
     /\ UNCHANGED << list, op, args, memo >>
  \/ /\ op = "encodeListForShare" /\ outcome = "return"
     /\ \E received \in Arrivals(result) :
          /\ args' = << received >>
          /\ result' = decodeSharedList(received)
     /\ op' = "decodeSharedList"
     /\ outcome' = "return"
     /\ memo' = [op |-> op, args |-> args, outcome |-> outcome,
                 result |-> result, others |-> FALSE]
     /\ UNCHANGED list

NextShare == EncodeListForShare \/ DecodeSharedList

SpecShare == InitShare /\ [][NextShare]_vars

(***************************************************************************)
(* C1  Round trip of the share codec: decodeSharedList of what            *)
(* encodeListForShare returned for a list is an object with the           *)
(* properties name and items and no other; name is the name of the list,  *)
(* items has the length of the items of the list, and its element i is an *)
(* object with the properties name and category and no other, which hold  *)
(* the name and the category of item i.                                   *)
(***************************************************************************)
C1_ShareRoundTrip ==
  (/\ op = "decodeSharedList" /\ outcome = "return"
   /\ memo.op = "encodeListForShare"
   /\ args[1] = memo.result) =>
    LET shared == memo.args[1]
    IN  /\ result.t = "object"
        /\ DOMAIN result.v = { KeyName, KeyItems }
        /\ result.v[KeyName] = JStr(shared.name)
        /\ result.v[KeyItems].t = "array"
        /\ Len(result.v[KeyItems].v) = Len(shared.items)
        /\ \A i \in DOMAIN shared.items :
              /\ result.v[KeyItems].v[i].t = "object"
              /\ DOMAIN result.v[KeyItems].v[i].v = { KeyName, KeyCategory }
              /\ result.v[KeyItems].v[i].v[KeyName] = JStr(shared.items[i].name)
              /\ result.v[KeyItems].v[i].v[KeyCategory]
                   = JStr(shared.items[i].category)

\* A list named with a quote and a lone surrogate, holding two items, one
\* of them done, comes back with its name and two items.
C1_Witness ==
  /\ op = "decodeSharedList" /\ outcome = "return"
  /\ memo.op = "encodeListForShare"
  /\ args[1] = memo.result
  /\ memo.args[1].name = << Ord("\""), 56832 >>
  /\ Len(memo.args[1].items) = 2
  /\ memo.args[1].items[1].done
  /\ result.t = "object"
  /\ result.v[KeyName] = JStr(<< Ord("\""), 56832 >>)
  /\ Len(result.v[KeyItems].v) = 2

(***************************************************************************)
(* C2  decodeSharedList never throws, and returns null for every          *)
(* malformed input: a text that is no base64 encoding (a character in it  *)
(* is neither a base64 character, of either alphabet, nor the padding),   *)
(* or a text whose decoded text is no JSON.                                *)
(***************************************************************************)
NotBase64(text) ==
  \E i \in DOMAIN text : Unbase64(text[i]) = 64 /\ text[i] # Ord("=")

Malformed(text) ==
  \/ NotBase64(text)
  \/ ~ JSONParse(Utf8Decode(Base64Decode(text))).ok

C2_MalformedGivesNull ==
  (op = "decodeSharedList" /\ outcome # "pending") =>
    /\ outcome = "return"
    /\ (Malformed(args[1]) => result = Null)

\* What the code does instead: it returns null exactly when the text that
\* the lenient base64 decoder reads out of the input is no JSON, or is the
\* JSON null.
DecodeIsNullWhenNotJSON ==
  (op = "decodeSharedList" /\ outcome # "pending") =>
    /\ outcome = "return"
    /\ (result = Null) =
         (\/ ~ JSONParse(Utf8Decode(Base64Decode(args[1]))).ok
          \/ JSONParse(Utf8Decode(Base64Decode(args[1]))).v = Null)

=============================================================================
